---- MODULE Spec2Model ----
(***************************************************************************)
(* Forced-photometry helpers of code/photometry.py:                        *)
(*   make_cutouts, run_tractor, suppress_stdout, interpret_tractor_results *)
(* A caller invokes the three functions one call at a time with inputs     *)
(* drawn from small sets.  The collaborators that are not part of the file *)
(* (extract_cutout, fits.open / WCS, tractor.optimize) act as the          *)
(* environment: every outcome their interface allows is enumerated.        *)
(*                                                                         *)
(* Floating point values are tagged records: Num(v) is the finite value v, *)
(* NaN is numpy.nan, None is Python's None, Vec(e) is an array.            *)
(* dlnp is counted in units of 1e-4, so that 1e-3 is ConvTol = 10.         *)
(***************************************************************************)
EXTENDS Integers, Sequences, FiniteSets, TLC

\* ------------------------------------------------------------------ bounds
\* number of distinct image files the caller can name
NumFiles == 2
\* largest confusor count / source list length minus one handed to the interpreter
MaxConf == 2

\* ------------------------------------------------------- program constants
\* range(20): the iteration cap of the optimisation loop
MaxIters == 20
\* dlnp < 1e-3, in units of 1e-4
ConvTol == 10
\* "assumes we are fitting positions and flux": parameters per source
ParamsPerSource == 3

\* ------------------------------------------------------------------ values
Num(v) == [k |-> "num", v |-> v]
NaN == [k |-> "nan"]
None == [k |-> "none"]
Vec(e) == [k |-> "vec", e |-> e]
Unset == [k |-> "unset", kind |-> "unset"]

IsNaN(x) == x.k = "nan"

\* float multiplication: NaN is absorbing
Mul(a, b) == IF a.k = "num" /\ b.k = "num" THEN Num(a.v * b.v) ELSE NaN

\* numpy.sqrt: NaN for NaN and for negative input (a RuntimeWarning, no exception)
Sqrt(a) ==
    IF a.k = "num" /\ a.v >= 0
    THEN Num(CHOOSE r \in 0..a.v : r * r <= a.v /\ (r + 1) * (r + 1) > a.v)
    ELSE NaN

\* float comparison a < b: False as soon as one side is NaN
Lt(a, b) == a.k = "num" /\ b.k = "num" /\ a.v < b.v

VARIABLES
    pc,            \* position of the caller / of the running function
    \* make_cutouts
    infiles,       \* <<imgfile, skybgfile>>
    opened,        \* files given to fits.open, in call order
    extract_calls, \* extract_cutout calls: frame, wcs and the flag it reported
    wcs_info,      \* local wcs_info
    sci,           \* (subimage, nodata_param, subimage_wcs) of the science call
    bkg,           \* (bgsubimage, bgnodata_param, bgimage_wcs) of the background call
    mc_out,        \* what make_cutouts handed to its caller
    \* run_tractor
    tr,            \* loop variable
    steps,         \* number of tractor.optimize calls made
    flux_var,      \* local flux_var
    fit_fail,      \* local fit_fail
    sys_stdout,    \* sys.stdout: one of Streams, or "devnull"
    old_stdout,    \* suppress_stdout's local old_stdout
    caller_stdout, \* the stream sys.stdout was when run_tractor was called
    pending_exc,   \* exception travelling out of the with block, "none" if none
    fit_state,     \* RUNNING, CONVERGED, MAX_ITERS_REACHED, FAILED
    opt_ret,       \* what the last tractor.optimize call did
    first_conv,    \* position of the first step with dlnp < 1e-3, 0 if none
    rt_out,        \* what run_tractor handed to its caller
    \* interpret_tractor_results
    it_args,       \* the arguments of the call
    it_out         \* its outcome and the reads it made

mc_vars == <<infiles, opened, extract_calls, wcs_info, sci, bkg, mc_out>>
rt_vars == <<tr, steps, flux_var, fit_fail, sys_stdout, old_stdout, caller_stdout,
             pending_exc, fit_state, opt_ret, first_conv, rt_out>>
it_vars == <<it_args, it_out>>
vars == <<pc, mc_vars, rt_vars, it_vars>>

\* the caller is between two calls
Idle == pc = "idle"

\* ------------------------------------------------------------ make_cutouts
Files == 1..NumFiles

\* fits.open(path)[0]: the primary HDU of the file
FitsOpen(path) == [file |-> path]

\* WCS(hdu): the WCS of that HDU's header
WCS(hdu) == [header |-> hdu.file]

\* extract_cutout(ra, dec, cutout_width, mosaic_pix_scale, hdulist, wcs_info):
\* a fresh cutout array carved from the frame with the WCS it was given, the
\* is-empty flag, and the local WCS.  call is the array's identity.
ExtractCutout(hdu, wcs, flag, call) ==
    [img |-> [id |-> call, frame |-> hdu.file, wcs |-> wcs],
     nodata |-> flag,
     wcs |-> [cut |-> call, of |-> wcs]]

\* the flags extract_cutout reports: is_empty = True or False
ExtractFlags == BOOLEAN

\* mutant: the flag compared with the string "True", never identical
IsTrue_String(flag) == FALSE

\* "nodata_param is True": identity with the True object
IsTrue(flag) == flag = TRUE

\* mutant: "skybgfile is imgfile" on two equal path strings built apart
SameFile_Identity(skybgfile, imgfile) == FALSE

\* "skybgfile == imgfile"
SameFile(skybgfile, imgfile) == skybgfile = imgfile

CutoutError == [kind |-> "raise", exc |-> "CutoutError"]

MCInit ==
    /\ infiles = Unset
    /\ opened = <<>>
    /\ extract_calls = <<>>
    /\ wcs_info = Unset
    /\ sci = Unset
    /\ bkg = Unset
    /\ mc_out = Unset

MCReset ==
    /\ infiles' = Unset
    /\ opened' = <<>>
    /\ extract_calls' = <<>>
    /\ wcs_info' = Unset
    /\ sci' = Unset
    /\ bkg' = Unset
    /\ mc_out' = Unset

RTInit ==
    /\ tr = 0
    /\ steps = 0
    /\ flux_var = Unset
    /\ fit_fail = FALSE
    /\ sys_stdout = "tty"
    /\ old_stdout = "unset"
    /\ caller_stdout = "unset"
    /\ pending_exc = "none"
    /\ fit_state = "NONE"
    /\ opt_ret = Unset
    /\ first_conv = 0
    /\ rt_out = Unset

RTReset ==
    /\ tr' = 0
    /\ steps' = 0
    /\ flux_var' = Unset
    /\ fit_fail' = FALSE
    /\ sys_stdout' = sys_stdout
    /\ old_stdout' = "unset"
    /\ caller_stdout' = "unset"
    /\ pending_exc' = "none"
    /\ fit_state' = "NONE"
    /\ opt_ret' = Unset
    /\ first_conv' = 0
    /\ rt_out' = Unset

ITInit ==
    /\ it_args = Unset
    /\ it_out = Unset

ITReset ==
    /\ it_args' = Unset
    /\ it_out' = Unset

\* lines 49-56: open the science image, read its WCS, extract the science cutout
MC_Science ==
    /\ Idle
    /\ \E imgfile \in Files, skybgfile \in Files, flag \in ExtractFlags :
          LET hdulist == FitsOpen(imgfile)
              w == WCS(hdulist)
          IN  /\ infiles' = <<imgfile, skybgfile>>
              /\ opened' = <<imgfile>>
              /\ wcs_info' = w
              /\ sci' = ExtractCutout(hdulist, w, flag, 1)
              /\ extract_calls' = <<[frame |-> imgfile, wcs |-> w, nodata |-> flag]>>
    /\ bkg' = Unset
    /\ mc_out' = Unset
    /\ pc' = "mc_sci"
    /\ UNCHANGED <<rt_vars, it_vars>>

\* lines 59-65: raise on a failed science cutout, else reuse it when the
\* background file is the science file
MC_AfterScience ==
    /\ pc = "mc_sci"
    /\ IF IsTrue(sci.nodata)
       THEN /\ mc_out' = CutoutError
            /\ pc' = "mc_done"
       ELSE IF SameFile(infiles[2], infiles[1])
            THEN /\ mc_out' = [kind |-> "return", subimage |-> sci.img,
                               subimage_wcs |-> sci.wcs, bgsubimage |-> sci.img]
                 /\ pc' = "mc_done"
            ELSE /\ mc_out' = mc_out
                 /\ pc' = "mc_bkg"
    /\ UNCHANGED <<infiles, opened, extract_calls, wcs_info, sci, bkg>>
    /\ UNCHANGED <<rt_vars, it_vars>>

\* lines 68-71: open the background image and extract the background cutout
MC_Background ==
    /\ pc = "mc_bkg"
    /\ \E flag \in ExtractFlags :
          LET bkg_hdulist == FitsOpen(infiles[2])
          IN  /\ opened' = Append(opened, infiles[2])
              /\ bkg' = ExtractCutout(bkg_hdulist, wcs_info, flag, 2)
              /\ extract_calls' = Append(extract_calls,
                     [frame |-> infiles[2], wcs |-> wcs_info, nodata |-> flag])
    /\ pc' = "mc_bkgcheck"
    /\ UNCHANGED <<infiles, wcs_info, sci, mc_out>>
    /\ UNCHANGED <<rt_vars, it_vars>>

\* lines 74-77: raise on a failed background cutout, else return both cutouts
MC_AfterBackground ==
    /\ pc = "mc_bkgcheck"
    /\ IF IsTrue(bkg.nodata)
       THEN mc_out' = CutoutError
       ELSE mc_out' = [kind |-> "return", subimage |-> sci.img,
                       subimage_wcs |-> sci.wcs, bgsubimage |-> bkg.img]
    /\ pc' = "mc_done"
    /\ UNCHANGED <<infiles, opened, extract_calls, wcs_info, sci, bkg>>
    /\ UNCHANGED <<rt_vars, it_vars>>

\* ------------------------------------------------------------- run_tractor
\* the streams sys.stdout can be bound to when run_tractor is called
Streams == {"tty", "pipe"}

\* log-posterior improvements tractor.optimize can report, in units of 1e-4
DlnpVals == {Num(0 - 5), Num(0), Num(9), Num(10), Num(11), Num(5000), NaN}

\* variance vectors tractor.optimize(variance=True) can report
OptVars == {None, Vec(<<Num(1), Num(1), Num(4)>>), Vec(<<Num(1), Num(1), Num(9)>>)}

\* what a linearised least-squares step can raise
OptimizerErrors == {"LinAlgError", "ValueError", "FloatingPointError"}

\* mutant: "except np.linalg.LinAlgError"
CaughtByExceptException_LinAlgOnly(exc) == exc = "LinAlgError"

\* "except Exception": every optimizer error derives from Exception
CaughtByExceptException(exc) == exc \in OptimizerErrors

\* mutant: "if dlnp <= 1e-3: break"
Converged_AtMost(dlnp) == Lt(dlnp, Num(ConvTol + 1))

\* "if dlnp < 1e-3: break"
Converged(dlnp) == Lt(dlnp, Num(ConvTol))

\* lines 82-107: build the image and the tractor object, freeze the image
\* parameters, fit_fail = False, tr = 0, and enter suppress_stdout (165-169)
RT_Enter ==
    /\ Idle
    /\ \E s \in Streams :
          /\ caller_stdout' = s
          /\ old_stdout' = s
    /\ sys_stdout' = "devnull"
    /\ fit_fail' = FALSE
    /\ tr' = 0
    /\ steps' = 0
    /\ flux_var' = Unset
    /\ pending_exc' = "none"
    /\ fit_state' = "RUNNING"
    /\ opt_ret' = Unset
    /\ first_conv' = 0
    /\ rt_out' = Unset
    /\ pc' = "rt_loop"
    /\ UNCHANGED <<mc_vars, it_vars>>

\* mutant: a for ... else clause marks the fit failed when range(20) runs out
RT_StepReturns_ElseFails ==
    /\ pc = "rt_loop"
    /\ \E dlnp \in DlnpVals, var \in OptVars :
          /\ steps' = steps + 1
          /\ opt_ret' = [step |-> steps + 1, kind |-> "ok", dlnp |-> dlnp, var |-> var]
          /\ first_conv' = IF first_conv = 0 /\ Lt(dlnp, Num(ConvTol))
                           THEN steps + 1 ELSE first_conv
          /\ flux_var' = var
          /\ IF Converged(dlnp)
             THEN /\ fit_state' = "CONVERGED"
                  /\ tr' = tr
                  /\ pc' = "rt_exit"
             ELSE IF tr + 1 < MaxIters
                  THEN /\ fit_state' = fit_state
                       /\ tr' = tr + 1
                       /\ pc' = "rt_loop"
                  ELSE /\ fit_state' = "MAX_ITERS_REACHED"
                       /\ tr' = tr
                       /\ pc' = "rt_exit"
          /\ fit_fail' = (~ Converged(dlnp) /\ ~ (tr + 1 < MaxIters))
    /\ UNCHANGED <<sys_stdout, old_stdout, caller_stdout, pending_exc, rt_out>>
    /\ UNCHANGED <<mc_vars, it_vars>>

\* lines 108-112, the step returns: bind dlnp and flux_var, break on
\* convergence, else take the next value of range(20) or leave the loop
RT_StepReturns ==
    /\ pc = "rt_loop"
    /\ \E dlnp \in DlnpVals, var \in OptVars :
          /\ steps' = steps + 1
          /\ opt_ret' = [step |-> steps + 1, kind |-> "ok", dlnp |-> dlnp, var |-> var]
          /\ first_conv' = IF first_conv = 0 /\ Lt(dlnp, Num(ConvTol))
                           THEN steps + 1 ELSE first_conv
          /\ flux_var' = var
          /\ IF Converged(dlnp)
             THEN /\ fit_state' = "CONVERGED"
                  /\ tr' = tr
                  /\ pc' = "rt_exit"
             ELSE IF tr + 1 < MaxIters
                  THEN /\ fit_state' = fit_state
                       /\ tr' = tr + 1
                       /\ pc' = "rt_loop"
                  ELSE /\ fit_state' = "MAX_ITERS_REACHED"
                       /\ tr' = tr
                       /\ pc' = "rt_exit"
    /\ UNCHANGED <<fit_fail, sys_stdout, old_stdout, caller_stdout, pending_exc, rt_out>>
    /\ UNCHANGED <<mc_vars, it_vars>>

\* line 109, the step raises: nothing is bound, the exception leaves the loop
RT_StepRaises ==
    /\ pc = "rt_loop"
    /\ \E exc \in OptimizerErrors :
          /\ pending_exc' = exc
          /\ opt_ret' = [step |-> steps + 1, kind |-> "raise", exc |-> exc]
    /\ steps' = steps + 1
    /\ pc' = "rt_exit"
    /\ UNCHANGED <<tr, flux_var, fit_fail, sys_stdout, old_stdout, caller_stdout,
                   fit_state, first_conv, rt_out>>
    /\ UNCHANGED <<mc_vars, it_vars>>

\* mutant: no try/finally around the yield, an exception skips the restore
SuppressStdoutExit_NoFinally ==
    /\ pc = "rt_exit"
    /\ sys_stdout' = IF pending_exc = "none" THEN old_stdout ELSE sys_stdout
    /\ pc' = IF pending_exc = "none" THEN "rt_return" ELSE "rt_except"
    /\ UNCHANGED <<tr, steps, flux_var, fit_fail, old_stdout, caller_stdout,
                   pending_exc, fit_state, opt_ret, first_conv, rt_out>>
    /\ UNCHANGED <<mc_vars, it_vars>>

\* lines 168-171: the finally clause of suppress_stdout restores sys.stdout,
\* with or without an exception in flight
SuppressStdoutExit ==
    /\ pc = "rt_exit"
    /\ sys_stdout' = old_stdout
    /\ pc' = IF pending_exc = "none" THEN "rt_return" ELSE "rt_except"
    /\ UNCHANGED <<tr, steps, flux_var, fit_fail, old_stdout, caller_stdout,
                   pending_exc, fit_state, opt_ret, first_conv, rt_out>>
    /\ UNCHANGED <<mc_vars, it_vars>>

\* lines 115-117: except Exception: fit_fail = True, flux_var = np.nan
RT_Except ==
    /\ pc = "rt_except"
    /\ IF CaughtByExceptException(pending_exc)
       THEN /\ fit_fail' = TRUE
            /\ flux_var' = NaN
            /\ fit_state' = "FAILED"
            /\ pending_exc' = "none"
            /\ rt_out' = rt_out
            /\ pc' = "rt_return"
       ELSE /\ rt_out' = [kind |-> "raise", exc |-> pending_exc]
            /\ pc' = "rt_done"
            /\ UNCHANGED <<fit_fail, flux_var, fit_state, pending_exc>>
    /\ UNCHANGED <<tr, steps, sys_stdout, old_stdout, caller_stdout, opt_ret, first_conv>>
    /\ UNCHANGED <<mc_vars, it_vars>>

\* line 119: return flux_var, fit_fail
RT_Return ==
    /\ pc = "rt_return"
    /\ rt_out' = [kind |-> "return", flux_var |-> flux_var, fit_fail |-> fit_fail]
    /\ pc' = "rt_done"
    /\ UNCHANGED <<tr, steps, flux_var, fit_fail, sys_stdout, old_stdout, caller_stdout,
                   pending_exc, fit_state, opt_ret, first_conv>>
    /\ UNCHANGED <<mc_vars, it_vars>>

\* ----------------------------------------------- interpret_tractor_results
\* PointSource.getParamNames() when positions and flux are fitted
ParamNames == <<"pos.x", "pos.y", "brightness.Flux">>

\* a PointSource with fitted flux f
Source(f) == [names |-> ParamNames, params |-> <<Num(0), Num(0), Num(f)>>]

\* list.index(name), 0-based; the name is in the list
ListIndex(names, name) ==
    (CHOOSE i \in 1..Len(names) :
        names[i] = name /\ \A j \in 1..(i - 1) : names[j] # name) - 1

\* mutant: "fv = ((nconfsrcs+1)*1) - 1", the flux-only layout of line 148
FvIndex_FluxOnly(nconfsrcs) == ((nconfsrcs + 1) * 1) - 1

\* "fv = ((nconfsrcs + 1) * 3) - 1"
FvIndex(nconfsrcs) == ((nconfsrcs + 1) * ParamsPerSource) - 1

\* mutant: "flux_var is None" is tested before "fit_fail"
InterpretTractorResults_NoneFirst(fv_arg, flux_conv, failed, objsrc, nconfsrcs) ==
    IF failed /\ fv_arg.k # "none"
    THEN [kind |-> "return", flux |-> NaN, unc |-> NaN, reads |-> {}]
    ELSE IF Len(objsrc) = 0
    THEN [kind |-> "raise", exc |-> "IndexError", reads |-> {}]
    ELSE LET bindex == ListIndex(objsrc[1].names, "brightness.Flux")
             flux == objsrc[1].params[bindex + 1]
             rflux == [what |-> "param", src |-> 0, idx |-> bindex]
             fv == FvIndex(nconfsrcs)
         IN  IF fv_arg.k = "none"
             THEN [kind |-> "return", flux |-> Mul(flux, flux_conv), unc |-> NaN,
                   reads |-> {rflux}]
             ELSE IF fv_arg.k # "vec"
             THEN [kind |-> "raise", exc |-> "TypeError", reads |-> {rflux}]
             ELSE IF fv >= Len(fv_arg.e)
             THEN [kind |-> "raise", exc |-> "IndexError", reads |-> {rflux}]
             ELSE [kind |-> "return",
                   flux |-> Mul(flux, flux_conv),
                   unc |-> Mul(Sqrt(fv_arg.e[fv + 1]), flux_conv),
                   reads |-> {rflux, [what |-> "var", src |-> fv \div ParamsPerSource,
                                      idx |-> fv % ParamsPerSource]}]

\* lines 122-155.  reads lists every parameter and variance entry looked at.
InterpretTractorResults(fv_arg, flux_conv, failed, objsrc, nconfsrcs) ==
    IF failed
    THEN [kind |-> "return", flux |-> NaN, unc |-> NaN, reads |-> {}]
    ELSE IF Len(objsrc) = 0
    THEN [kind |-> "raise", exc |-> "IndexError", reads |-> {}]
    ELSE LET bindex == ListIndex(objsrc[1].names, "brightness.Flux")
             flux == objsrc[1].params[bindex + 1]
             rflux == [what |-> "param", src |-> 0, idx |-> bindex]
             fv == FvIndex(nconfsrcs)
         IN  IF fv_arg.k = "none"
             THEN [kind |-> "return", flux |-> Mul(flux, flux_conv), unc |-> NaN,
                   reads |-> {rflux}]
             ELSE IF fv_arg.k # "vec"
             THEN [kind |-> "raise", exc |-> "TypeError", reads |-> {rflux}]
             ELSE IF fv >= Len(fv_arg.e)
             THEN [kind |-> "raise", exc |-> "IndexError", reads |-> {rflux}]
             ELSE [kind |-> "return",
                   flux |-> Mul(flux, flux_conv),
                   unc |-> Mul(Sqrt(fv_arg.e[fv + 1]), flux_conv),
                   reads |-> {rflux, [what |-> "var", src |-> fv \div ParamsPerSource,
                                      idx |-> fv % ParamsPerSource]}]

\* fitted fluxes, conversion factors and flux-variance entries of the calls
FluxVals == {5, 10}
ConvVals == {Num(1), Num(2)}
VarVals == {NaN, Num(0 - 1), Num(4), Num(9)}

\* source lists of 0 .. MaxConf + 1 sources
SourceLists ==
    UNION {[1..m -> {Source(f) : f \in FluxVals}] : m \in 0..(MaxConf + 1)}

\* variance vectors of m sources: (x, y, flux) variances per source, in list order
VarVectors(m) ==
    {Vec([i \in 1..(ParamsPerSource * m) |->
            IF i % ParamsPerSource = 0 THEN fl[i \div ParamsPerSource] ELSE Num(1)]) :
        fl \in [1..m -> VarVals]}

\* what run_tractor can hand over (None, np.nan, a vector), for any list length
FluxVarArgs == {None, NaN} \cup UNION {VarVectors(m) : m \in 0..(MaxConf + 1)}

\* one call of interpret_tractor_results
IT_Call ==
    /\ Idle
    /\ \E fv_arg \in FluxVarArgs, flux_conv \in ConvVals, failed \in BOOLEAN,
          objsrc \in SourceLists, nconfsrcs \in 0..MaxConf :
          /\ it_args' = [flux_var |-> fv_arg, flux_conv |-> flux_conv,
                         fit_fail |-> failed, objsrc |-> objsrc,
                         nconfsrcs |-> nconfsrcs]
          /\ it_out' = InterpretTractorResults(fv_arg, flux_conv, failed, objsrc, nconfsrcs)
    /\ pc' = "it_done"
    /\ UNCHANGED <<mc_vars, rt_vars>>

\* the caller drops the results of a finished call: nothing is kept between requests
Finish ==
    /\ pc \in {"mc_done", "rt_done", "it_done"}
    /\ pc' = "idle"
    /\ MCReset
    /\ RTReset
    /\ ITReset

Init ==
    /\ pc = "idle"
    /\ MCInit
    /\ RTInit
    /\ ITInit

Next ==
    \/ MC_Science
    \/ MC_AfterScience
    \/ MC_Background
    \/ MC_AfterBackground
    \/ RT_Enter
    \/ RT_StepReturns
    \/ RT_StepRaises
    \/ SuppressStdoutExit
    \/ RT_Except
    \/ RT_Return
    \/ IT_Call
    \/ Finish

Spec == Init /\ [][Next]_vars

\* ------------------------------------------------------------------ claims

C2_StepCount ==
    /\ steps <= 20
    /\ first_conv # 0 => steps = first_conv
    /\ pc = "rt_done" =>
          /\ steps >= 1
          /\ (opt_ret.kind = "ok" /\ first_conv = 0) => steps = 20

\* a fit whose first step already has dlnp < 1e-3 has finished after one step
C2_Witness ==
    /\ pc = "rt_done"
    /\ first_conv = 1
    /\ steps = 1
    /\ rt_out.kind = "return"

\* C3: 20 steps without an exception and without dlnp < 1e-3 end in
\* MAX_ITERS_REACHED: failed = False and the variance of the 20th step are
\* returned.  The fit ends in exactly one of CONVERGED, MAX_ITERS_REACHED and
\* FAILED, and failed = True is returned only from FAILED.
C3_Terminal ==
    pc = "rt_done" =>
        /\ fit_state \in {"CONVERGED", "MAX_ITERS_REACHED", "FAILED"}
        /\ rt_out.fit_fail <=> fit_state = "FAILED"
        /\ fit_state = "FAILED" <=> opt_ret.kind = "raise"
        /\ fit_state = "CONVERGED" <=> (opt_ret.kind = "ok" /\ first_conv # 0)
        /\ (opt_ret.kind = "ok" /\ first_conv = 0) =>
              /\ fit_state = "MAX_ITERS_REACHED"
              /\ opt_ret.step = 20
              /\ rt_out = [kind |-> "return", flux_var |-> opt_ret.var, fit_fail |-> FALSE]

\* a fit that used all 20 steps has returned normally
C3_Witness ==
    /\ pc = "rt_done"
    /\ fit_state = "MAX_ITERS_REACHED"
    /\ steps = 20
    /\ rt_out.fit_fail = FALSE

\* C4: sys.stdout is the null device only while the optimizer steps run, and
\* from the end of the with block on, on every way out of run_tractor, it is
\* the stream it was when run_tractor was called.
C4_StdoutRestored ==
    /\ sys_stdout = "devnull" => pc \in {"rt_loop", "rt_exit"}
    /\ pc \in {"rt_loop", "rt_exit"} => sys_stdout = "devnull"
    /\ pc \in {"rt_except", "rt_return", "rt_done"} => sys_stdout = caller_stdout

\* a fit that failed with an exception has returned with the caller's stream back
C4_Witness ==
    /\ pc = "rt_done"
    /\ fit_state = "FAILED"
    /\ caller_stdout = "pipe"
    /\ sys_stdout = "pipe"

\* C5: with failed = True the interpreter returns (NaN, NaN) whatever the
\* other arguments are, and looks at no parameter and no variance entry.
C5_FailedIsNaN ==
    (pc = "it_done" /\ it_args.fit_fail) =>
        /\ it_out.kind = "return"
        /\ it_out.flux = NaN
        /\ it_out.unc = NaN
        /\ it_out.reads = {}

\* a failed fit interpreted with an empty source list and a variance vector
C5_Witness ==
    /\ pc = "it_done"
    /\ it_args.fit_fail
    /\ it_args.objsrc = <<>>
    /\ it_args.flux_var.k = "vec"
    /\ it_out.flux = NaN

\* the inputs the interpreter is specified for when the fit did not fail: a
\* source list that is not empty, and a variance that is None or a vector
\* that has the entry ((nconfsrcs + 1) * 3) - 1
C6_Pre ==
    /\ pc = "it_done"
    /\ it_args.fit_fail = FALSE
    /\ Len(it_args.objsrc) >= 1
    /\ \/ it_args.flux_var = None
       \/ /\ it_args.flux_var.k = "vec"
          /\ Len(it_args.flux_var.e) > ((it_args.nconfsrcs + 1) * 3) - 1

\* the flux and the uncertainty C6 states for such an input
C6_Values ==
    /\ it_out.kind = "return"
    /\ it_out.flux = Mul(it_args.objsrc[1].params[3], it_args.flux_conv)
    /\ it_args.flux_var = None => it_out.unc = NaN
    /\ it_args.flux_var # None =>
          it_out.unc = Mul(Sqrt(it_args.flux_var.e[(it_args.nconfsrcs + 1) * 3]),
                           it_args.flux_conv)

C7_SameSource ==
    ( /\ pc = "it_done"
      /\ it_args.fit_fail = FALSE
      /\ Len(it_args.objsrc) = it_args.nconfsrcs + 1
      /\ it_args.flux_var.k = "vec"
      /\ Len(it_args.flux_var.e) = 3 * (it_args.nconfsrcs + 1) ) =>
        \A r \in it_out.reads :
            r.what = "var" =>
                /\ r.idx = 2
                /\ \E p \in it_out.reads : p.what = "param" /\ p.src = r.src

\* C8: with equal paths one file is opened and one extraction is made, and the
\* background cutout returned is the science cutout itself; with different
\* paths there are two extractions, science then background, unless the
\* science extraction failed.
C8_SingleExtraction ==
    pc = "mc_done" =>
        /\ infiles[2] = infiles[1] =>
              /\ Len(opened) = 1
              /\ Len(extract_calls) = 1
              /\ mc_out.kind = "return" => mc_out.bgsubimage = mc_out.subimage
        /\ (infiles[2] # infiles[1] /\ ~ extract_calls[1].nodata) =>
              /\ Len(extract_calls) = 2
              /\ extract_calls[1].frame = infiles[1]
              /\ extract_calls[2].frame = infiles[2]
        /\ (infiles[2] # infiles[1] /\ extract_calls[1].nodata) =>
              Len(extract_calls) = 1

\* equal paths, and the call returned the one cutout twice
C8_Witness ==
    /\ pc = "mc_done"
    /\ infiles[2] = infiles[1]
    /\ mc_out.kind = "return"
    /\ mc_out.bgsubimage.id = 1
    /\ Len(extract_calls) = 1

C10_OwnWCS ==
    \A i \in 1..Len(extract_calls) :
        extract_calls[i].wcs = WCS(FitsOpen(extract_calls[i].frame))

====
